---------------------------- MODULE Spec2Model ----------------------------
(***************************************************************************)
(* Ranking synchronization and reconciliation of reddit-seo.               *)
(*                                                                         *)
(* The store holds the tables reddit_posts and rankings_history.  A pass   *)
(* is one request: the on-demand route (POST check-rankings/[keyword]),    *)
(* the cron route (GET cron/refresh-rankings) or the scheduled edge        *)
(* function (refresh-rankings/index.ts).  The two routes reconcile with    *)
(* lib/rankings.ts saveRankingsToDatabase, the edge function with its own  *)
(* copy of it.  Every await of the code is one step of a pass.             *)
(*                                                                         *)
(* Time is counted in hours; the 1.5 s pause after a scrape is below that  *)
(* resolution and is modelled as a step of its own.                        *)
(***************************************************************************)
EXTENDS Integers, Sequences, FiniteSets, TLC

(***************************************************************************)
(* Bounds of the model.                                                    *)
(***************************************************************************)
\* keyword synchronisations begun in one behaviour
MaxSyncs == 2
\* items in one provider response
MaxItems == 2

(***************************************************************************)
(* Program constants.                                                      *)
(***************************************************************************)
\* 24 * 60 * 60 * 1000 ms, in hours
StaleAfter == 24
\* first page: positions 1..10
MinRank == 1
MaxRank == 10
\* task.status_code of a successful task
TaskOk == 20000

(***************************************************************************)
(* Values.                                                                 *)
(***************************************************************************)
Null == "null"
\* a NULL timestamp column
NoTime == -1
\* parseInt of a string that holds no number
NaN == -999
\* a count that a response or a result entry does not carry
NoCount == -1

Keywords == {"k1", "k2"}
\* the keywords table, in listing order
TrackedKeywords == <<"k1", "k2">>
\* the keywords table as a batch may find it: empty, or holding the keywords
KeywordTables == {<<>>, TrackedKeywords}

\* URLs as path segments
UrlA == <<"reddit.com", "r", "a", "1">>
UrlB == <<"reddit.com", "r", "b", "2">>
UrlUser == <<"reddit.com", "user", "x">>
UrlOther == <<"example.com", "p">>
RawUrls == {UrlA, UrlB, UrlUser, UrlOther}

\* titles as tokens; "[tag]" is a bracketed prefix, " " is white space
RawTitles == {<<>>, <<"T">>, <<"[tag]", " ", "T">>}
ItemTypes == {"organic", "paid"}
RankAbsolutes == {0, 1, 10, 11}
Positions == {"left", "10"}

RawItems ==
  [type : ItemTypes, url : RawUrls, title : RawTitles,
   rank_absolute : RankAbsolutes, position : Positions]

\* hours between two requests: one hour, the staleness window, one more
Deltas == {1, StaleAfter, StaleAfter + 1}

(***************************************************************************)
(* Pure helpers of lib/rankings.ts.                                        *)
(***************************************************************************)
\* JavaScript truthiness of a number
Truthy(n) == n /= 0 /\ n /= NaN

ParseInt(s) == IF s = "10" THEN 10 ELSE NaN

\* a || b || 0
RankOf(item) ==
  IF Truthy(item.rank_absolute) THEN item.rank_absolute
  ELSE IF Truthy(ParseInt(item.position)) THEN ParseInt(item.position)
  ELSE 0

\* url.includes('reddit.com')
IsRedditUrl(url) == \E i \in 1..Len(url) : url[i] = "reddit.com"

\* url.match(/reddit\.com\/r\/([^\/]+)/)
RedditMatch(url) ==
  {i \in 1..Len(url) : /\ url[i] = "reddit.com"
                       /\ i + 2 <= Len(url)
                       /\ url[i + 1] = "r"}

RECURSIVE DropLeadingSpace(_)
DropLeadingSpace(t) ==
  IF t /= <<>> /\ Head(t) = " " THEN DropLeadingSpace(Tail(t)) ELSE t

RECURSIVE DropTrailingSpace(_)
DropTrailingSpace(t) ==
  IF t /= <<>> /\ t[Len(t)] = " "
  THEN DropTrailingSpace(SubSeq(t, 1, Len(t) - 1))
  ELSE t

\* title.replace(/^\[.*?\]\s*/, '').trim()
CleanTitle(t) ==
  LET stripped == IF t /= <<>> /\ Head(t) = "[tag]" THEN DropLeadingSpace(Tail(t)) ELSE t
  IN  DropTrailingSpace(DropLeadingSpace(stripped))

\* extractRedditData: the subreddit and the cleaned title, or no match
extractRedditData(url, title) ==
  IF RedditMatch(url) = {} THEN Null
  ELSE LET i == CHOOSE j \in RedditMatch(url) : \A k \in RedditMatch(url) : j <= k
       IN  [subreddit |-> url[i + 2], postTitle |-> CleanTitle(title)]

\* variant: the first-page filter is left out
InFirstPage_Unfiltered(rank) == TRUE

\* "Only include first page results (positions 1-10)"
InFirstPage(rank) == rank >= MinRank /\ rank <= MaxRank

\* the body of checkRankings' loop over result.items: the candidate an item
\* yields, as a sequence of zero or one element
ParseItem(item) ==
  IF /\ item.type = "organic"
     /\ item.url /= <<>>
     /\ item.title /= <<>>
     /\ IsRedditUrl(item.url)
     /\ RedditMatch(item.url) /= {}
     /\ InFirstPage(RankOf(item))
  THEN <<[post_url |-> item.url,
          post_title |-> extractRedditData(item.url, item.title).postTitle,
          subreddit |-> extractRedditData(item.url, item.title).subreddit,
          rank_position |-> RankOf(item)]>>
  ELSE <<>>


(***************************************************************************)
(* checkRankings up to the loop over the items: what it throws, or whether *)
(* it goes on to parse.  cfg says whether both DataForSEO credentials are  *)
(* set; resp is the provider's answer.                                     *)
(***************************************************************************)
ProviderResponses ==
  [transport : {"ok", "throw"}, http_ok : BOOLEAN, tasks : {0, 1},
   status_code : {TaskOk, 40501}, results : {0, 1}]

\* variant: a non-2xx answer yields an empty list
checkRankingsHead_EmptyOnHttpError(cfg, resp) ==
  IF ~cfg
  THEN [threw |-> "DataForSEO credentials not configured", parse |-> FALSE,
        called |-> FALSE]
  ELSE IF resp.transport = "throw"
  THEN [threw |-> "fetch failed", parse |-> FALSE, called |-> TRUE]
  ELSE IF ~resp.http_ok THEN [threw |-> "", parse |-> FALSE, called |-> TRUE]
  ELSE IF resp.tasks = 0
  THEN [threw |-> "No results from DataForSEO API", parse |-> FALSE, called |-> TRUE]
  ELSE IF resp.status_code /= TaskOk
  THEN [threw |-> "DataForSEO API error: status_message", parse |-> FALSE,
        called |-> TRUE]
  ELSE IF resp.results = 0 THEN [threw |-> "", parse |-> FALSE, called |-> TRUE]
  ELSE [threw |-> "", parse |-> TRUE, called |-> TRUE]

\* variant: the task's status_code is not looked at
checkRankingsHead_IgnoresTaskStatus(cfg, resp) ==
  IF ~cfg
  THEN [threw |-> "DataForSEO credentials not configured", parse |-> FALSE,
        called |-> FALSE]
  ELSE IF resp.transport = "throw"
  THEN [threw |-> "fetch failed", parse |-> FALSE, called |-> TRUE]
  ELSE IF ~resp.http_ok
  THEN [threw |-> "DataForSEO API error: status", parse |-> FALSE, called |-> TRUE]
  ELSE IF resp.tasks = 0
  THEN [threw |-> "No results from DataForSEO API", parse |-> FALSE, called |-> TRUE]
  ELSE IF resp.results = 0 THEN [threw |-> "", parse |-> FALSE, called |-> TRUE]
  ELSE [threw |-> "", parse |-> TRUE, called |-> TRUE]

checkRankingsHead(cfg, resp) ==
  IF ~cfg
  THEN [threw |-> "DataForSEO credentials not configured", parse |-> FALSE,
        called |-> FALSE]
  ELSE IF resp.transport = "throw"
  THEN [threw |-> "fetch failed", parse |-> FALSE, called |-> TRUE]
  ELSE IF ~resp.http_ok
  THEN [threw |-> "DataForSEO API error: status", parse |-> FALSE, called |-> TRUE]
  ELSE IF resp.tasks = 0
  THEN [threw |-> "No results from DataForSEO API", parse |-> FALSE, called |-> TRUE]
  ELSE IF resp.status_code /= TaskOk
  THEN [threw |-> "DataForSEO API error: status_message", parse |-> FALSE,
        called |-> TRUE]
  ELSE IF resp.results = 0 THEN [threw |-> "", parse |-> FALSE, called |-> TRUE]
  ELSE [threw |-> "", parse |-> TRUE, called |-> TRUE]

\* what the search provider was asked and what it answered, as the caller of
\* checkRankings can observe it
FetchInput(cfg, resp) ==
  IF ~cfg THEN "no_credentials"
  ELSE IF resp.transport = "throw" THEN "transport_failure"
  ELSE IF ~resp.http_ok THEN "non_2xx"
  ELSE IF resp.tasks = 0 THEN "no_task"
  ELSE IF resp.status_code /= TaskOk THEN "task_failed"
  ELSE IF resp.results = 0 THEN "no_result"
  ELSE "result"

(***************************************************************************)
(* scrapeRedditPostWithApify: the payload it returns, or what it throws.   *)
(***************************************************************************)
ApifyOutcomes == {"no_token", "throw", "http_error", "items", "empty_array"}

\* variant: the fetch is not wrapped in try/catch
scrapeRedditPostWithApify_Uncaught(outcome) ==
  CASE outcome = "no_token"    -> [threw |-> "", data |-> Null]
    [] outcome = "throw"       -> [threw |-> "fetch failed", data |-> Null]
    [] outcome = "http_error"  -> [threw |-> "", data |-> Null]
    [] outcome = "items"       -> [threw |-> "", data |-> "item"]
    [] outcome = "empty_array" -> [threw |-> "", data |-> "[]"]

scrapeRedditPostWithApify(outcome) ==
  CASE outcome = "no_token"    -> [threw |-> "", data |-> Null]
    [] outcome = "throw"       -> [threw |-> "", data |-> Null]
    [] outcome = "http_error"  -> [threw |-> "", data |-> Null]
    [] outcome = "items"       -> [threw |-> "", data |-> "item"]
    [] outcome = "empty_array" -> [threw |-> "", data |-> "[]"]

\* if (apifyData): null is the only falsy payload; an empty array is truthy
HasData(data) == data /= Null

\* variant: the delay follows a payload only
AfterScrape_DelayOnPayload(data) == IF HasData(data) THEN "delay" ELSE "write"

\* the delay follows the call in either branch of if (apifyData)
AfterScrape(data) == "delay"

(***************************************************************************)
(* The store: reddit_posts and rankings_history with their constraints.    *)
(***************************************************************************)
NoPost ==
  [id |-> 0, keyword_id |-> "", post_url |-> <<>>, post_title |-> <<>>,
   subreddit |-> "", rank_position |-> 0, first_seen_at |-> NoTime,
   last_checked_at |-> NoTime, apify_scraped_data |-> Null,
   apify_scraped_at |-> NoTime]

\* CHECK (rank_position >= 1 AND rank_position <= 10)
RankCheck(rank) == rank >= 1 /\ rank <= 10

\* variant: the table has no UNIQUE(keyword_id, post_url)
UniqueOk_NoConstraint(rows, row) == TRUE

\* UNIQUE(keyword_id, post_url)
UniqueOk(rows, row) ==
  \A r \in rows : ~(r.keyword_id = row.keyword_id /\ r.post_url = row.post_url)

\* .eq('keyword_id', k).eq('post_url', u)
SelectPost(rows, k, u) == {r \in rows : r.keyword_id = k /\ r.post_url = u}

\* variant: the filter on keyword_id is left out
SelectByKeyword_AnyKeyword(rows, k) == rows

\* .eq('keyword_id', k)
SelectByKeyword(rows, k) == {r \in rows : r.keyword_id = k}

\* variant: reddit_post_id references nothing
ForeignKeyOk_NoConstraint(rows, id) == TRUE

\* REFERENCES reddit_posts(id)
ForeignKeyOk(rows, id) == \E r \in rows : r.id = id

\* variant: the foreign key has no ON DELETE CASCADE
CascadeHistory_Kept(hist, ids) == hist

\* ON DELETE CASCADE
CascadeHistory(hist, ids) ==
  SelectSeq(hist, LAMBDA h : h.reddit_post_id \notin ids)

HistoryOf(hist, id) == SelectSeq(hist, LAMBDA h : h.reddit_post_id = id)

\* rows ordered by rank_position ascending
IsOrdered(s) == \A i, j \in 1..Len(s) : i < j => s[i].rank_position <= s[j].rank_position

OrderedRows(rows) ==
  {s \in [1..Cardinality(rows) -> rows] :
     /\ \A r \in rows : \E i \in 1..Cardinality(rows) : s[i] = r
     /\ IsOrdered(s)}

(***************************************************************************)
(* The reconciler's decisions.                                             *)
(***************************************************************************)
\* lib/rankings.ts returns at once on an empty list; the edge function's
\* copy has no such return
ReturnsOnEmpty(m) == m \in {"post", "cron"}

\* variant: >= in place of >
shouldScrape_AtLeast(existing, t) ==
  \/ existing = NoPost
  \/ existing.apify_scraped_at = NoTime
  \/ t - existing.apify_scraped_at >= StaleAfter

\* shouldScrape, with the clock read at the decision
shouldScrape(existing, t) ==
  \/ existing = NoPost
  \/ existing.apify_scraped_at = NoTime
  \/ t - existing.apify_scraped_at > StaleAfter

\* variant: the update leaves rank_position out
updateData_KeepsRank(row, post, t, data) ==
  LET base == [row EXCEPT !.post_title = post.post_title,
                          !.subreddit = post.subreddit,
                          !.last_checked_at = t]
  IN  IF HasData(data)
      THEN [base EXCEPT !.apify_scraped_data = data, !.apify_scraped_at = t]
      ELSE base

\* variant: the update also writes first_seen_at
updateData_ResetsFirstSeen(row, post, t, data) ==
  LET base == [row EXCEPT !.rank_position = post.rank_position,
                          !.post_title = post.post_title,
                          !.subreddit = post.subreddit,
                          !.first_seen_at = t,
                          !.last_checked_at = t]
  IN  IF HasData(data)
      THEN [base EXCEPT !.apify_scraped_data = data, !.apify_scraped_at = t]
      ELSE base

updateData(row, post, t, data) ==
  LET base == [row EXCEPT !.rank_position = post.rank_position,
                          !.post_title = post.post_title,
                          !.subreddit = post.subreddit,
                          !.last_checked_at = t]
  IN  IF HasData(data)
      THEN [base EXCEPT !.apify_scraped_data = data, !.apify_scraped_at = t]
      ELSE base

\* variant: first_seen_at is left to the column's default
insertData_NoFirstSeen(id, k, post, t, data) ==
  [id |-> id, keyword_id |-> k, post_url |-> post.post_url,
   post_title |-> post.post_title, subreddit |-> post.subreddit,
   rank_position |-> post.rank_position, first_seen_at |-> NoTime,
   last_checked_at |-> t,
   apify_scraped_data |-> IF HasData(data) THEN data ELSE Null,
   apify_scraped_at |-> IF HasData(data) THEN t ELSE NoTime]

insertData(id, k, post, t, data) ==
  [id |-> id, keyword_id |-> k, post_url |-> post.post_url,
   post_title |-> post.post_title, subreddit |-> post.subreddit,
   rank_position |-> post.rank_position, first_seen_at |-> t,
   last_checked_at |-> t,
   apify_scraped_data |-> IF HasData(data) THEN data ELSE Null,
   apify_scraped_at |-> IF HasData(data) THEN t ELSE NoTime]

historyRow(id, post, t) ==
  [reddit_post_id |-> id, rank_position |-> post.rank_position, checked_at |-> t]

\* variant: nothing is deleted
postsToDelete_None(all, candidates) == {}

\* the ids of the stored rows whose URL is not among the candidates
postsToDelete(all, candidates) ==
  {r.id : r \in {a \in all :
                   \A i \in 1..Len(candidates) : candidates[i].post_url /= a.post_url}}

(***************************************************************************)
(* State.                                                                  *)
(***************************************************************************)
Procs == {1, 2}
Modes == {"post", "cron", "edge"}

\* CRON_SECRET and the request's bearer token; Null where there is none
Secrets == {Null, "s3cret"}
Tokens == {Null, "s3cret", "wrong"}
Auths == [secret : Secrets, token : Tokens]
NoAuth == [secret |-> Null, token |-> Null]

\* cronSecret && authHeader !== `Bearer ${cronSecret}`
Unauthorized(secret, token) == secret /= Null /\ token /= secret

\* the cron route compares the bearer token; the edge function reads neither
\* a secret nor the authorization header
ChecksSecret(m) == m = "cron"

VARIABLES
  posts,        \* reddit_posts: a set of rows
  history,      \* rankings_history: rows in insertion order
  nextId,       \* the next generated row id
  clock,        \* the time, in hours
  syncs,        \* keyword synchronisations begun so far
  pc,           \* where each pass stands
  mode,         \* which entry point the pass came in by
  auth,         \* the configured secret and the request's bearer token
  kws,          \* the keywords of the pass
  ki,           \* index of the keyword being synchronised
  redditPosts,  \* the candidate list of that keyword
  itemsSeen,    \* provider items read so far
  ci,           \* index of the candidate being reconciled
  existingPost, \* the lookup's row, or NoPost
  apifyData,    \* the payload scraped for the candidate, or Null
  now,          \* saveRankingsToDatabase's now
  targetId,     \* the row the history record is appended for
  insertError,  \* the error of the candidate's insert, "" if none
  allPosts,     \* the rows listed before the delete
  results,      \* the batch's per-keyword entries
  response,     \* the response of the pass
  err,          \* the message of the error being thrown
  \* history variables, read by the properties only
  pre,          \* posts and history when the reconcile of the keyword began
  faulted,      \* a storage operation of that reconcile failed
  calls,        \* enrichment calls made for the current candidate
  scrapeLog,    \* per candidate of the keyword: skipped, unavailable or payload
  keywordLog,   \* per keyword of the pass: did its fetch throw, did storage fail
  droppedRank   \* the fetch read an item rejected for its rank alone

store == <<posts, history, nextId>>
locals == <<kws, ki, redditPosts, itemsSeen, ci, existingPost, apifyData, now,
            targetId, insertError, allPosts, results, response, err>>
ghosts == <<pre, faulted, calls, scrapeLog, keywordLog, droppedRank>>
vars == <<posts, history, nextId, clock, syncs, pc, mode, auth, kws, ki, redditPosts,
          itemsSeen, ci, existingPost, apifyData, now, targetId, insertError,
          allPosts, results, response, err, pre, faulted, calls, scrapeLog,
          keywordLog, droppedRank>>

NoResponse ==
  [status |-> 0, error |-> "", data |-> <<>>, message |-> "", checked |-> NoCount,
   successful |-> NoCount, failed |-> NoCount, results |-> <<>>]

NoSnapshot == [posts |-> {}, history |-> <<>>]

\* no request has arrived yet
InitPasses ==
  /\ syncs = 0
  /\ pc = [p \in Procs |-> "idle"]
  /\ mode = [p \in Procs |-> "post"]
  /\ auth = [p \in Procs |-> NoAuth]
  /\ kws = [p \in Procs |-> <<>>]
  /\ ki = [p \in Procs |-> 0]
  /\ redditPosts = [p \in Procs |-> <<>>]
  /\ itemsSeen = [p \in Procs |-> 0]
  /\ ci = [p \in Procs |-> 0]
  /\ existingPost = [p \in Procs |-> NoPost]
  /\ apifyData = [p \in Procs |-> Null]
  /\ now = [p \in Procs |-> 0]
  /\ targetId = [p \in Procs |-> 0]
  /\ insertError = [p \in Procs |-> ""]
  /\ allPosts = [p \in Procs |-> {}]
  /\ results = [p \in Procs |-> <<>>]
  /\ response = [p \in Procs |-> NoResponse]
  /\ err = [p \in Procs |-> ""]
  /\ pre = [p \in Procs |-> NoSnapshot]
  /\ faulted = [p \in Procs |-> FALSE]
  /\ calls = [p \in Procs |-> 0]
  /\ scrapeLog = [p \in Procs |-> <<>>]
  /\ keywordLog = [p \in Procs |-> <<>>]
  /\ droppedRank = [p \in Procs |-> FALSE]

Init ==
  /\ posts = {}
  /\ history = <<>>
  /\ nextId = 1
  /\ clock = 0
  /\ InitPasses

keyword(p) == kws[p][ki[p]]
candidate(p) == redditPosts[p][ci[p]]

(***************************************************************************)
(* The entry points.                                                       *)
(***************************************************************************)
\* a request arrives: POST check-rankings/[k], GET cron/refresh-rankings, or
\* the edge function
Start(p, m, k, a) ==
  /\ pc[p] = "idle"
  /\ syncs < MaxSyncs
  /\ syncs' = syncs + 1
  /\ clock' = clock
  /\ mode' = [mode EXCEPT ![p] = m]
  /\ auth' = [auth EXCEPT ![p] = a]
  /\ IF m = "post"
     THEN /\ kws' = [kws EXCEPT ![p] = <<k>>]
          /\ ki' = [ki EXCEPT ![p] = 1]
          /\ pc' = [pc EXCEPT ![p] = "fetch"]
          /\ UNCHANGED response
     ELSE IF ChecksSecret(m) /\ Unauthorized(a.secret, a.token)
     THEN /\ response' = [response EXCEPT ![p] =
                            [NoResponse EXCEPT !.status = 401, !.error = "Unauthorized"]]
          /\ pc' = [pc EXCEPT ![p] = "done"]
          /\ UNCHANGED <<kws, ki>>
     ELSE /\ pc' = [pc EXCEPT ![p] = "keywords"]
          /\ UNCHANGED <<kws, ki, response>>
  /\ UNCHANGED <<store, redditPosts, itemsSeen, ci, existingPost, apifyData, now,
                 targetId, insertError, allPosts, results, err, ghosts>>

\* supabase.from('keywords').select('id, keyword')
ListKeywords(p, fail, table) ==
  /\ pc[p] = "keywords"
  /\ IF fail
     THEN /\ response' = [response EXCEPT ![p] =
                            [NoResponse EXCEPT !.status = 500, !.error = "keywordsError"]]
          /\ pc' = [pc EXCEPT ![p] = "done"]
          /\ UNCHANGED <<kws, ki>>
     ELSE IF Len(table) = 0
     THEN /\ response' = [response EXCEPT ![p] =
                            [NoResponse EXCEPT !.status = 200,
                                               !.message = "No keywords to check",
                                               !.checked = 0]]
          /\ pc' = [pc EXCEPT ![p] = "done"]
          /\ UNCHANGED <<kws, ki>>
     ELSE /\ kws' = [kws EXCEPT ![p] = table]
          /\ ki' = [ki EXCEPT ![p] = 1]
          /\ pc' = [pc EXCEPT ![p] = "fetch"]
          /\ UNCHANGED response
  /\ UNCHANGED <<store, clock, syncs, mode, auth, redditPosts, itemsSeen, ci, existingPost,
                 apifyData, now, targetId, insertError, allPosts, results, err, ghosts>>

(***************************************************************************)
(* checkRankings.                                                          *)
(***************************************************************************)
Fetch(p, cfg, resp) ==
  /\ pc[p] = "fetch"
  /\ LET head == checkRankingsHead(cfg, resp)
     IN  /\ redditPosts' = [redditPosts EXCEPT ![p] = <<>>]
         /\ itemsSeen' = [itemsSeen EXCEPT ![p] = 0]
         /\ err' = [err EXCEPT ![p] = head.threw]
         /\ pc' = [pc EXCEPT ![p] =
                     IF head.threw /= "" THEN "catch"
                     ELSE IF head.parse THEN "parse" ELSE "save"]
         /\ keywordLog' = [keywordLog EXCEPT ![p] =
                             Append(@, [fetchThrew |-> head.threw /= "",
                                        storageFailed |-> FALSE,
                                        reconciled |-> FALSE,
                                        input |-> FetchInput(cfg, resp),
                                        called |-> head.called,
                                        undelayed |-> IF Len(@) = 0 THEN FALSE
                                                      ELSE @[Len(@)].undelayed])]
  /\ pre' = [pre EXCEPT ![p] = [posts |-> posts, history |-> history]]
  /\ scrapeLog' = [scrapeLog EXCEPT ![p] = <<>>]
  /\ calls' = [calls EXCEPT ![p] = 0]
  /\ UNCHANGED <<store, clock, syncs, mode, auth, kws, ki, ci, existingPost, apifyData,
                 now, targetId, insertError, allPosts, results, response,
                 faulted, droppedRank>>

\* one turn of the loop over result.items; the page lists a URL once and its
\* items by rising rank
ReadItem(p, item) ==
  /\ pc[p] = "parse"
  /\ itemsSeen[p] < MaxItems
  /\ \A i \in 1..Len(redditPosts[p]) :
       /\ redditPosts[p][i].post_url /= item.url
       /\ redditPosts[p][i].rank_position < RankOf(item)
  /\ itemsSeen' = [itemsSeen EXCEPT ![p] = @ + 1]
  /\ redditPosts' = [redditPosts EXCEPT ![p] = @ \o ParseItem(item)]
  /\ droppedRank' = [droppedRank EXCEPT ![p] =
                       \/ @
                       \/ /\ ParseItem(item) = <<>>
                          /\ \E r \in MinRank..MaxRank :
                               ParseItem([item EXCEPT !.rank_absolute = r]) /= <<>>]
  /\ UNCHANGED <<store, clock, syncs, pc, mode, auth, kws, ki, ci, existingPost, apifyData,
                 now, targetId, insertError, allPosts, results, response, err,
                 pre, faulted, calls, scrapeLog, keywordLog>>

\* return redditPosts
Fetched(p) ==
  /\ pc[p] = "parse"
  /\ pc' = [pc EXCEPT ![p] = "save"]
  /\ UNCHANGED <<store, clock, syncs, mode, auth, locals, ghosts>>

(***************************************************************************)
(* saveRankingsToDatabase.  A storage operation returns {data, error} and  *)
(* never throws; fail says that the operation returned an error.           *)
(***************************************************************************)
\* variant: the caller does not await the reconcile and goes on at once
SaveStart_NotAwaited(p) ==
  /\ pc[p] = "save"
  /\ IF mode[p] = "post"
     THEN /\ pc' = [pc EXCEPT ![p] = "refetch"]
          /\ UNCHANGED <<ki, syncs>>
     ELSE IF ki[p] < Len(kws[p])
     THEN /\ syncs < MaxSyncs
          /\ syncs' = syncs + 1
          /\ ki' = [ki EXCEPT ![p] = @ + 1]
          /\ pc' = [pc EXCEPT ![p] = "fetch"]
     ELSE /\ pc' = [pc EXCEPT ![p] = "respond"]
          /\ UNCHANGED <<ki, syncs>>
  /\ UNCHANGED <<store, clock, mode, auth, kws, redditPosts, itemsSeen, ci,
                 existingPost, apifyData, now, targetId, insertError, allPosts,
                 results, response, err, ghosts>>

SaveStart(p) ==
  /\ pc[p] = "save"
  /\ now' = [now EXCEPT ![p] = clock]
  /\ pre' = [pre EXCEPT ![p] = [posts |-> posts, history |-> history]]
  /\ faulted' = [faulted EXCEPT ![p] = FALSE]
  /\ scrapeLog' = [scrapeLog EXCEPT ![p] = <<>>]
  /\ droppedRank' = [droppedRank EXCEPT ![p] = FALSE]
  /\ IF Len(redditPosts[p]) = 0
     THEN /\ pc' = [pc EXCEPT ![p] = IF ReturnsOnEmpty(mode[p]) THEN "saved" ELSE "deleteAll"]
          /\ ci' = ci
     ELSE /\ pc' = [pc EXCEPT ![p] = "lookup"]
          /\ ci' = [ci EXCEPT ![p] = 1]
  /\ UNCHANGED <<store, clock, syncs, mode, auth, kws, ki, redditPosts, itemsSeen,
                 existingPost, apifyData, targetId, insertError, allPosts, results,
                 response, err, calls, keywordLog>>

\* select('id, first_seen_at, apify_scraped_at') ... .single(), then shouldScrape
Lookup(p, fail) ==
  /\ pc[p] = "lookup"
  /\ LET rows == SelectPost(posts, keyword(p), candidate(p).post_url)
         found == IF fail \/ Cardinality(rows) /= 1 THEN NoPost
                  ELSE CHOOSE r \in rows : TRUE
         scrape == shouldScrape(found, clock)
     IN  /\ existingPost' = [existingPost EXCEPT ![p] = found]
         /\ pc' = [pc EXCEPT ![p] = IF scrape THEN "scrape" ELSE "write"]
         /\ scrapeLog' = [scrapeLog EXCEPT ![p] =
                            IF scrape THEN @ ELSE Append(@, "skipped")]
  /\ apifyData' = [apifyData EXCEPT ![p] = Null]
  /\ insertError' = [insertError EXCEPT ![p] = ""]
  /\ calls' = [calls EXCEPT ![p] = 0]
  /\ faulted' = [faulted EXCEPT ![p] = @ \/ fail]
  /\ UNCHANGED <<store, clock, syncs, mode, auth, kws, ki, redditPosts, itemsSeen, ci, now,
                 targetId, allPosts, results, response, err, pre, keywordLog,
                 droppedRank>>

\* apifyData = await scrapeRedditPostWithApify(post.post_url)
Scrape(p, outcome) ==
  /\ pc[p] = "scrape"
  /\ LET r == scrapeRedditPostWithApify(outcome)
     IN  IF r.threw /= ""
         THEN /\ err' = [err EXCEPT ![p] = r.threw]
              /\ pc' = [pc EXCEPT ![p] = "catch"]
              /\ UNCHANGED <<apifyData, scrapeLog>>
         ELSE /\ apifyData' = [apifyData EXCEPT ![p] = r.data]
              /\ pc' = [pc EXCEPT ![p] = AfterScrape(r.data)]
              /\ scrapeLog' = [scrapeLog EXCEPT ![p] =
                                 Append(@, IF HasData(r.data) THEN "payload"
                                           ELSE "unavailable")]
              /\ err' = err
  /\ calls' = [calls EXCEPT ![p] = @ + 1]
  /\ keywordLog' = [keywordLog EXCEPT ![p][ki[p]].undelayed = TRUE]
  /\ UNCHANGED <<store, clock, syncs, mode, auth, kws, ki, redditPosts, itemsSeen, ci,
                 existingPost, now, targetId, insertError, allPosts, results,
                 response, pre, faulted, droppedRank>>

\* variant: the timer's promise never resolves
Delay_NeverResolves(p) ==
  /\ pc[p] = "delay"
  /\ UNCHANGED vars

\* await new Promise(resolve => setTimeout(resolve, 1500))
Delay(p) ==
  /\ pc[p] = "delay"
  /\ pc' = [pc EXCEPT ![p] = "write"]
  /\ keywordLog' = [keywordLog EXCEPT ![p][ki[p]].undelayed = FALSE]
  /\ UNCHANGED <<store, clock, syncs, mode, auth, locals, pre, faulted, calls,
                 scrapeLog, droppedRank>>

\* where the loop over the candidates goes after a candidate
AfterCandidate(p) ==
  IF ci[p] < Len(redditPosts[p])
  THEN /\ ci' = [ci EXCEPT ![p] = @ + 1]
       /\ pc' = [pc EXCEPT ![p] = "lookup"]
  ELSE /\ ci' = ci
       /\ pc' = [pc EXCEPT ![p] = "list"]

\* the update of the existing row, or the insert of a new one
Write(p, fail) ==
  /\ pc[p] = "write"
  /\ IF existingPost[p] /= NoPost
     THEN LET ok == ~fail /\ RankCheck(candidate(p).rank_position)
          IN  /\ posts' = IF ok
                          THEN {IF r.id = existingPost[p].id
                                THEN updateData(r, candidate(p), now[p], apifyData[p])
                                ELSE r : r \in posts}
                          ELSE posts
              /\ targetId' = [targetId EXCEPT ![p] = existingPost[p].id]
              /\ pc' = [pc EXCEPT ![p] = "history"]
              /\ faulted' = [faulted EXCEPT ![p] = @ \/ ~ok]
              /\ UNCHANGED <<nextId, insertError, ci>>
     ELSE LET row == insertData(nextId, keyword(p), candidate(p), now[p], apifyData[p])
              ok == ~fail /\ RankCheck(row.rank_position) /\ UniqueOk(posts, row)
          IN  /\ faulted' = [faulted EXCEPT ![p] = @ \/ ~ok]
              /\ IF ok
                 THEN /\ posts' = posts \cup {row}
                      /\ nextId' = nextId + 1
                      /\ targetId' = [targetId EXCEPT ![p] = row.id]
                      /\ pc' = [pc EXCEPT ![p] = "history"]
                      /\ UNCHANGED <<insertError, ci>>
                 ELSE /\ insertError' = [insertError EXCEPT ![p] =
                                           IF fail THEN "fault"
                                           ELSE IF ~UniqueOk(posts, row) THEN "23505"
                                           ELSE "23514"]
                      /\ AfterCandidate(p)
                      /\ UNCHANGED <<posts, nextId, targetId>>
  /\ UNCHANGED <<history, clock, syncs, mode, auth, kws, ki, redditPosts, itemsSeen,
                 existingPost, apifyData, now, allPosts, results, response, err,
                 pre, calls, scrapeLog, keywordLog, droppedRank>>

\* variant: the history row of the post is replaced, not appended
History_Upsert(p, fail) ==
  /\ pc[p] = "history"
  /\ LET ok == /\ ~fail
               /\ ForeignKeyOk(posts, targetId[p])
               /\ RankCheck(candidate(p).rank_position)
     IN  /\ history' = IF ok
                       THEN Append(CascadeHistory(history, {targetId[p]}),
                                   historyRow(targetId[p], candidate(p), now[p]))
                       ELSE history
         /\ faulted' = [faulted EXCEPT ![p] = @ \/ ~ok]
  /\ AfterCandidate(p)
  /\ UNCHANGED <<posts, nextId, clock, syncs, mode, auth, kws, ki, redditPosts, itemsSeen,
                 existingPost, apifyData, now, targetId, insertError, allPosts,
                 results, response, err, pre, calls, scrapeLog, keywordLog,
                 droppedRank>>

\* supabase.from('rankings_history').insert(...); its result is not read
History(p, fail) ==
  /\ pc[p] = "history"
  /\ LET ok == /\ ~fail
               /\ ForeignKeyOk(posts, targetId[p])
               /\ RankCheck(candidate(p).rank_position)
     IN  /\ history' = IF ok
                       THEN Append(history, historyRow(targetId[p], candidate(p), now[p]))
                       ELSE history
         /\ faulted' = [faulted EXCEPT ![p] = @ \/ ~ok]
  /\ AfterCandidate(p)
  /\ UNCHANGED <<posts, nextId, clock, syncs, mode, auth, kws, ki, redditPosts, itemsSeen,
                 existingPost, apifyData, now, targetId, insertError, allPosts,
                 results, response, err, pre, calls, scrapeLog, keywordLog,
                 droppedRank>>

\* select('id, post_url').eq('keyword_id', keywordId)
ListAll(p, fail) ==
  /\ pc[p] = "list"
  /\ LET all == {[id |-> r.id, post_url |-> r.post_url] :
                   r \in SelectByKeyword(posts, keyword(p))}
     IN  IF fail
         THEN /\ allPosts' = [allPosts EXCEPT ![p] = {}]
              /\ pc' = [pc EXCEPT ![p] = "saved"]
         ELSE /\ allPosts' = [allPosts EXCEPT ![p] = all]
              /\ pc' = [pc EXCEPT ![p] =
                          IF postsToDelete(all, redditPosts[p]) = {} THEN "saved"
                          ELSE "delete"]
  /\ faulted' = [faulted EXCEPT ![p] = @ \/ fail]
  /\ UNCHANGED <<store, clock, syncs, mode, auth, kws, ki, redditPosts, itemsSeen, ci,
                 existingPost, apifyData, now, targetId, insertError, results,
                 response, err, pre, calls, scrapeLog, keywordLog, droppedRank>>

\* delete().in('id', postsToDelete)
Delete(p, fail) ==
  /\ pc[p] = "delete"
  /\ LET ids == postsToDelete(allPosts[p], redditPosts[p])
     IN  IF fail
         THEN UNCHANGED <<posts, history>>
         ELSE /\ posts' = {r \in posts : r.id \notin ids}
              /\ history' = CascadeHistory(history, ids)
  /\ faulted' = [faulted EXCEPT ![p] = @ \/ fail]
  /\ pc' = [pc EXCEPT ![p] = "saved"]
  /\ UNCHANGED <<nextId, clock, syncs, mode, auth, locals, pre, calls, scrapeLog,
                 keywordLog, droppedRank>>

\* delete().eq('keyword_id', keywordId)
DeleteAll(p, fail) ==
  /\ pc[p] = "deleteAll"
  /\ LET ids == {r.id : r \in SelectByKeyword(posts, keyword(p))}
     IN  IF fail
         THEN UNCHANGED <<posts, history>>
         ELSE /\ posts' = {r \in posts : r.id \notin ids}
              /\ history' = CascadeHistory(history, ids)
  /\ faulted' = [faulted EXCEPT ![p] = @ \/ fail]
  /\ pc' = [pc EXCEPT ![p] = "saved"]
  /\ UNCHANGED <<nextId, clock, syncs, mode, auth, locals, pre, calls, scrapeLog,
                 keywordLog, droppedRank>>

(***************************************************************************)
(* The callers of checkRankings and saveRankingsToDatabase.                *)
(***************************************************************************)
\* the batch's for loop moves to the next keyword, or leaves the loop
AfterKeyword(p) ==
  IF ki[p] < Len(kws[p])
  THEN /\ syncs < MaxSyncs
       /\ syncs' = syncs + 1
       /\ ki' = [ki EXCEPT ![p] = @ + 1]
       /\ pc' = [pc EXCEPT ![p] = "fetch"]
  ELSE /\ syncs' = syncs
       /\ ki' = ki
       /\ pc' = [pc EXCEPT ![p] = "respond"]

\* variant: the loop has no try/catch, the error reaches the outer catch
CatchInLoop_Rethrown(p) ==
  /\ response' = [response EXCEPT ![p] =
                    [NoResponse EXCEPT !.status = 500, !.error = err[p]]]
  /\ pc' = [pc EXCEPT ![p] = "done"]
  /\ UNCHANGED <<results, ki, syncs>>

\* variant: the loop's catch tries the keyword again
CatchInLoop_Retry(p) ==
  /\ pc' = [pc EXCEPT ![p] = "fetch"]
  /\ UNCHANGED <<results, ki, syncs, response>>

\* an error thrown by a keyword's fetch or reconcile, in a batch: the loop's
\* catch records the failure and the loop goes on
CatchInLoop(p) ==
  /\ results' = [results EXCEPT ![p] =
                   Append(@, [keyword |-> keyword(p), success |-> FALSE,
                              postsCount |-> NoCount, error |-> err[p]])]
  /\ AfterKeyword(p)
  /\ UNCHANGED response

\* saveRankingsToDatabase has returned
Saved(p) ==
  /\ pc[p] = "saved"
  /\ keywordLog' = [keywordLog EXCEPT ![p][ki[p]] =
                      [@ EXCEPT !.storageFailed = faulted[p], !.reconciled = TRUE]]
  /\ IF mode[p] = "post"
     THEN /\ pc' = [pc EXCEPT ![p] = "refetch"]
          /\ UNCHANGED <<results, ki, syncs>>
     ELSE /\ results' = [results EXCEPT ![p] =
                           Append(@, [keyword |-> keyword(p), success |-> TRUE,
                                      postsCount |-> Len(redditPosts[p]),
                                      error |-> ""])]
          /\ AfterKeyword(p)
  /\ UNCHANGED <<store, clock, mode, auth, kws, redditPosts, itemsSeen, ci,
                 existingPost, apifyData, now, targetId, insertError, allPosts,
                 response, err, pre, faulted, calls, scrapeLog, droppedRank>>

\* the catch that takes a thrown error
Catch(p) ==
  /\ pc[p] = "catch"
  /\ IF mode[p] = "post"
     THEN /\ response' = [response EXCEPT ![p] =
                            [NoResponse EXCEPT !.status = 500, !.error = err[p]]]
          /\ pc' = [pc EXCEPT ![p] = "done"]
          /\ UNCHANGED <<results, ki, syncs>>
     ELSE CatchInLoop(p)
  /\ UNCHANGED <<store, clock, mode, auth, kws, redditPosts, itemsSeen, ci,
                 existingPost, apifyData, now, targetId, insertError, allPosts,
                 err, ghosts>>

\* POST check-rankings: "Fetch updated posts"
Refetch(p, fail) ==
  /\ pc[p] = "refetch"
  /\ IF fail
     THEN response' = [response EXCEPT ![p] =
                         [NoResponse EXCEPT !.status = 500, !.error = "postsError"]]
     ELSE \E rows \in OrderedRows(SelectByKeyword(posts, keyword(p))) :
            response' = [response EXCEPT ![p] =
                           [NoResponse EXCEPT !.status = 200, !.data = rows]]
  /\ pc' = [pc EXCEPT ![p] = "done"]
  /\ UNCHANGED <<store, clock, syncs, mode, auth, kws, ki, redditPosts, itemsSeen, ci,
                 existingPost, apifyData, now, targetId, insertError, allPosts,
                 results, err, ghosts>>

\* variant: the summary counts every entry as successful
Respond_AllSuccessful(p) ==
  /\ pc[p] = "respond"
  /\ response' = [response EXCEPT ![p] =
       [NoResponse EXCEPT
          !.status = 200,
          !.message = "Cron job completed",
          !.checked = Len(kws[p]),
          !.successful = Len(results[p]),
          !.failed = 0,
          !.results = results[p]]]
  /\ pc' = [pc EXCEPT ![p] = "done"]
  /\ UNCHANGED <<store, clock, syncs, mode, auth, kws, ki, redditPosts, itemsSeen, ci,
                 existingPost, apifyData, now, targetId, insertError, allPosts,
                 results, err, ghosts>>

\* the batch's summary
Respond(p) ==
  /\ pc[p] = "respond"
  /\ response' = [response EXCEPT ![p] =
       [NoResponse EXCEPT
          !.status = 200,
          !.message = "Cron job completed",
          !.checked = Len(kws[p]),
          !.successful = Len(SelectSeq(results[p], LAMBDA r : r.success)),
          !.failed = Len(SelectSeq(results[p], LAMBDA r : ~r.success)),
          !.results = results[p]]]
  /\ pc' = [pc EXCEPT ![p] = "done"]
  /\ UNCHANGED <<store, clock, syncs, mode, auth, kws, ki, redditPosts, itemsSeen, ci,
                 existingPost, apifyData, now, targetId, insertError, allPosts,
                 results, err, ghosts>>

\* the response is sent and the request is over; d hours pass
Finish(p, d) ==
  /\ pc[p] = "done"
  /\ clock' = clock + d
  /\ pc' = [pc EXCEPT ![p] = "idle"]
  /\ mode' = [mode EXCEPT ![p] = "post"]
  /\ auth' = [auth EXCEPT ![p] = NoAuth]
  /\ kws' = [kws EXCEPT ![p] = <<>>]
  /\ ki' = [ki EXCEPT ![p] = 0]
  /\ redditPosts' = [redditPosts EXCEPT ![p] = <<>>]
  /\ itemsSeen' = [itemsSeen EXCEPT ![p] = 0]
  /\ ci' = [ci EXCEPT ![p] = 0]
  /\ existingPost' = [existingPost EXCEPT ![p] = NoPost]
  /\ apifyData' = [apifyData EXCEPT ![p] = Null]
  /\ now' = [now EXCEPT ![p] = 0]
  /\ targetId' = [targetId EXCEPT ![p] = 0]
  /\ insertError' = [insertError EXCEPT ![p] = ""]
  /\ allPosts' = [allPosts EXCEPT ![p] = {}]
  /\ results' = [results EXCEPT ![p] = <<>>]
  /\ response' = [response EXCEPT ![p] = NoResponse]
  /\ err' = [err EXCEPT ![p] = ""]
  /\ pre' = [pre EXCEPT ![p] = NoSnapshot]
  /\ faulted' = [faulted EXCEPT ![p] = FALSE]
  /\ calls' = [calls EXCEPT ![p] = 0]
  /\ scrapeLog' = [scrapeLog EXCEPT ![p] = <<>>]
  /\ keywordLog' = [keywordLog EXCEPT ![p] = <<>>]
  /\ droppedRank' = [droppedRank EXCEPT ![p] = FALSE]
  /\ UNCHANGED <<store, syncs>>

(***************************************************************************)
(* Specifications.  An environment says what the world may answer: whether *)
(* storage operations may fail, the enrichment provider's outcomes, the    *)
(* hours between requests, whether the search credentials are set, the     *)
(* search provider's responses and the items of its pages.                 *)
(***************************************************************************)
Step(p, env) ==
  \/ \E m \in Modes, k \in Keywords, a \in env.auths : Start(p, m, k, a)
  \/ \E fail \in env.fails, table \in env.tables : ListKeywords(p, fail, table)
  \/ \E cfg \in env.credentials, resp \in env.responses : Fetch(p, cfg, resp)
  \/ \E item \in env.items : ReadItem(p, item)
  \/ Fetched(p)
  \/ SaveStart(p)
  \/ \E fail \in env.fails : Lookup(p, fail)
  \/ \E outcome \in env.outcomes : Scrape(p, outcome)
  \/ Delay(p)
  \/ \E fail \in env.fails : Write(p, fail)
  \/ \E fail \in env.fails : History(p, fail)
  \/ \E fail \in env.fails : ListAll(p, fail)
  \/ \E fail \in env.fails : Delete(p, fail)
  \/ \E fail \in env.fails : DeleteAll(p, fail)
  \/ Saved(p)
  \/ Catch(p)
  \/ \E fail \in env.fails : Refetch(p, fail)
  \/ Respond(p)
  \/ \E d \in env.deltas : Finish(p, d)

\* the items that pass every filter of checkRankings
GoodItems ==
  {item \in RawItems : /\ ParseItem(item) /= <<>>
                       /\ item.title = <<"T">>
                       /\ item.position = "left"}

\* the same items, and each of them under another title
RetitledItems == GoodItems \cup {[item EXCEPT !.title = <<"U">>] : item \in GoodItems}

\* an answered request with one task and a result; the task may have failed
PlainResponses ==
  {resp \in ProviderResponses : /\ resp.transport = "ok" /\ resp.http_ok
                                /\ resp.tasks = 1 /\ resp.results = 1}

\* every answer of the two providers; the storage answers every operation
FullEnv ==
  [fails |-> {FALSE}, outcomes |-> ApifyOutcomes \ {"empty_array"}, deltas |-> Deltas,
   credentials |-> BOOLEAN, responses |-> ProviderResponses, items |-> RawItems,
   auths |-> {NoAuth}, tables |-> KeywordTables]

\* storage operations may fail
FaultEnv ==
  [fails |-> BOOLEAN, outcomes |-> {"items", "http_error"}, deltas |-> {1},
   credentials |-> {TRUE}, responses |-> PlainResponses, items |-> GoodItems,
   auths |-> {NoAuth}, tables |-> KeywordTables]

\* the plain answers, for overlapping passes
PlainEnv ==
  [fails |-> {FALSE}, outcomes |-> {"items"}, deltas |-> {1},
   credentials |-> {TRUE}, responses |-> PlainResponses, items |-> GoodItems,
   auths |-> {NoAuth}, tables |-> KeywordTables]

\* the enrichment provider may also answer 2xx with an empty result set
EnrichEnv ==
  [fails |-> {FALSE}, outcomes |-> ApifyOutcomes, deltas |-> {1, StaleAfter + 1},
   credentials |-> {TRUE}, responses |-> PlainResponses, items |-> GoodItems,
   auths |-> {NoAuth}, tables |-> {TrackedKeywords}]

\* requests with and without a configured secret and a bearer token
AuthEnv ==
  [fails |-> {FALSE}, outcomes |-> {"items"}, deltas |-> {1},
   credentials |-> {TRUE}, responses |-> PlainResponses, items |-> GoodItems,
   auths |-> Auths, tables |-> KeywordTables]

\* pages on which a post's title differs from one request to the next
TitleEnv ==
  [fails |-> {FALSE}, outcomes |-> {"items"}, deltas |-> {1},
   credentials |-> {TRUE}, responses |-> PlainResponses, items |-> RetitledItems,
   auths |-> {NoAuth}, tables |-> {TrackedKeywords}]

\* one pass at a time, the storage answering every operation
Next == Step(1, FullEnv)

Spec == Init /\ [][Next]_vars

\* one pass at a time, storage operations failing at will
NextFaults == Step(1, FaultEnv)

SpecFaults == Init /\ [][NextFaults]_vars

\* two passes that may overlap
NextConc == \E p \in Procs : Step(p, PlainEnv)

SpecConc == Init /\ [][NextConc]_vars

\* one pass at a time, any secret and any bearer token
NextAuth == Step(1, AuthEnv)

SpecAuth == Init /\ [][NextAuth]_vars

\* one pass at a time, titles changing
NextTitles == Step(1, TitleEnv)

SpecTitles == Init /\ [][NextTitles]_vars

\* one pass at a time, every answer of the enrichment provider
NextEnrich == Step(1, EnrichEnv)

SpecEnrich == Init /\ [][NextEnrich]_vars

\* a pass that has begun takes its next step: every call it awaits returns
Progress(p, env) == pc[p] \notin {"idle", "done"} /\ Step(p, env)

\* storage operations and fetches may fail; a page lists UrlA first and
\* UrlB last
LiveEnv ==
  [fails |-> BOOLEAN, outcomes |-> {"items"}, deltas |-> {1},
   credentials |-> {TRUE}, responses |-> PlainResponses,
   items |-> {item \in GoodItems : (item.url = UrlA) = (RankOf(item) = MinRank)},
   auths |-> {NoAuth}, tables |-> KeywordTables]

NextLive == Step(1, LiveEnv)

\* one pass at a time, storage operations failing at will, every awaited
\* call returning
SpecLive == Init /\ [][NextLive]_vars /\ WF_vars(Progress(1, LiveEnv))

\* the candidate that a first-page organic item for url at rank yields
SeedCandidate(url, rank) ==
  ParseItem([type |-> "organic", url |-> url, title |-> <<"T">>,
             rank_absolute |-> rank, position |-> "left"])[1]

\* the store one hour after a batch at hour 0 whose pages listed UrlA at rank
\* 1 and UrlB at rank 10 for k1 and UrlA at rank 1 for k2, each enriched
SeedPosts ==
  {insertData(1, "k1", SeedCandidate(UrlA, 1), 0, "item"),
   insertData(2, "k1", SeedCandidate(UrlB, 10), 0, "item"),
   insertData(3, "k2", SeedCandidate(UrlA, 1), 0, "item")}

SeedHistory ==
  <<historyRow(1, SeedCandidate(UrlA, 1), 0),
    historyRow(2, SeedCandidate(UrlB, 10), 0),
    historyRow(3, SeedCandidate(UrlA, 1), 0)>>

InitSeeded ==
  /\ posts = SeedPosts
  /\ history = SeedHistory
  /\ nextId = 4
  /\ clock = 1
  /\ InitPasses

\* the store of InitSeeded is one that Spec reaches from the empty store
SeedReached ==
  /\ posts = SeedPosts
  /\ history = SeedHistory
  /\ nextId = 4
  /\ clock = 1
  /\ pc[1] = "idle"

\* requests on a store that already holds posts of both keywords
SeededEnv ==
  [fails |-> {FALSE}, outcomes |-> {"items", "http_error"}, deltas |-> {1, StaleAfter + 1},
   credentials |-> {TRUE}, responses |-> PlainResponses, items |-> GoodItems,
   auths |-> {NoAuth}, tables |-> KeywordTables]

NextSeeded == Step(1, SeededEnv)

SpecSeeded == InitSeeded /\ [][NextSeeded]_vars

\* two passes that may overlap, on a store that already holds posts
SpecConcSeeded == InitSeeded /\ [][NextConc]_vars

(***************************************************************************)
(* Properties.                                                             *)
(***************************************************************************)
\* the rows stored for the keyword of p when its reconcile began
PreRows(p) == SelectByKeyword(pre[p].posts, keyword(p))
NowRows(p) == SelectByKeyword(posts, keyword(p))

HasCandidate(p, url) == \E i \in 1..Len(redditPosts[p]) : redditPosts[p][i].post_url = url

RecordsBefore(p, id) == Len(HistoryOf(pre[p].history, id))
RecordsNow(id) == Len(HistoryOf(history, id))

\* C1: a reconcile run with an empty candidate list has deleted every post
\* stored for the keyword and has added no history record.
C1_EmptyListDeletesAll ==
  \A p \in Procs :
    (pc[p] = "saved" /\ redditPosts[p] = <<>>) =>
      /\ NowRows(p) = {}
      /\ Len(history) <= Len(pre[p].history)

C3_AbsentPostRemoved ==
  \A p \in Procs :
    pc[p] = "saved" =>
      \A r \in PreRows(p) :
        ~HasCandidate(p, r.post_url) =>
          /\ \A q \in posts : q.id /= r.id
          /\ RecordsNow(r.id) = 0

\* C4: on a keyword with no stored post, a sync of n candidates leaves exactly
\* n rows, each with first_seen_at = last_checked_at and exactly one history
\* record that carries the candidate's rank; a following sync with some of
\* them deletes the others and leaves those found with one record more.
C4_FreshKeywordInserted ==
  \A p \in Procs :
    pc[p] = "saved" =>
      /\ PreRows(p) = {} =>
           /\ Cardinality(NowRows(p)) = Len(redditPosts[p])
           /\ \A i \in 1..Len(redditPosts[p]) :
                \E q \in NowRows(p) :
                  /\ q.post_url = redditPosts[p][i].post_url
                  /\ q.rank_position = redditPosts[p][i].rank_position
                  /\ q.first_seen_at = q.last_checked_at
                  /\ q.first_seen_at /= NoTime
                  /\ HistoryOf(history, q.id) =
                       <<[reddit_post_id |-> q.id,
                          rank_position |-> redditPosts[p][i].rank_position,
                          checked_at |-> q.last_checked_at]>>
      /\ redditPosts[p] /= <<>> =>
           \A r \in PreRows(p) :
             IF HasCandidate(p, r.post_url)
             THEN RecordsNow(r.id) = RecordsBefore(p, r.id) + 1
             ELSE (\A q \in posts : q.id /= r.id) /\ RecordsNow(r.id) = 0

\* the following sync of the example: two rows with one record each were
\* stored, one of them is found again and the other is deleted
C4_Witness ==
  \E p \in Procs :
    /\ pc[p] = "saved"
    /\ Cardinality(PreRows(p)) = 2
    /\ \A r \in PreRows(p) : RecordsBefore(p, r.id) = 1 /\ r.first_seen_at = r.last_checked_at
    /\ Len(redditPosts[p]) = 1
    /\ Cardinality(NowRows(p)) = 1
    /\ \A q \in NowRows(p) : RecordsNow(q.id) = 2

\* the row stored for the candidate p is working on
StoredForCandidate(p) == SelectPost(posts, keyword(p), candidate(p).post_url)

\* C5: when the candidate is about to be written, exactly one enrichment call
\* has been made for it if it is new, or its stored row has no enrichment
\* timestamp, or that timestamp is more than 24 hours old; none otherwise.
C5_EnrichmentByStaleness ==
  \A p \in Procs :
    pc[p] = "write" =>
      calls[p] = IF \/ StoredForCandidate(p) = {}
                    \/ \E r \in StoredForCandidate(p) :
                         \/ r.apify_scraped_at = NoTime
                         \/ clock - r.apify_scraped_at > 24
                 THEN 1 ELSE 0

\* a candidate whose stored enrichment is exactly 24 hours old, not enriched
C5_Witness ==
  \E p \in Procs :
    /\ pc[p] = "write"
    /\ calls[p] = 0
    /\ \E r \in StoredForCandidate(p) :
         r.apify_scraped_at /= NoTime /\ clock - r.apify_scraped_at = 24

\* C6: every candidate handed to the reconciler, every stored post and every
\* history record has a rank position from 1 to 10.
C6_RanksInFirstPage ==
  /\ \A p \in Procs : \A i \in 1..Len(redditPosts[p]) :
       redditPosts[p][i].rank_position \in 1..10
  /\ \A r \in posts : r.rank_position \in 1..10
  /\ \A i \in 1..Len(history) : history[i].rank_position \in 1..10

\* the fetch read an item with a rank outside 1..10, and its other items
\* reach the reconciler
C6_Witness ==
  \E p \in Procs :
    /\ pc[p] = "save"
    /\ droppedRank[p]
    /\ redditPosts[p] /= <<>>

\* C7: a finished batch has answered with a result that holds one entry per
\* keyword, and a keyword fetched and reconciled after a keyword whose fetch
\* threw has a successful entry.
C7_BatchContinues ==
  \A p \in Procs :
    (pc[p] = "done" /\ mode[p] /= "post" /\ kws[p] /= <<>>) =>
      /\ response[p].status = 200
      /\ Len(response[p].results) = Len(kws[p])
      /\ Len(keywordLog[p]) = Len(kws[p])
      /\ \A i, j \in 1..Len(kws[p]) :
           (i < j /\ keywordLog[p][i].fetchThrew /\ keywordLog[p][j].reconciled) =>
             /\ response[p].results[j].keyword = kws[p][j]
             /\ response[p].results[j].success

\* a batch whose first keyword failed to fetch and whose second keyword stored
\* posts
C7_Witness ==
  \E p \in Procs :
    /\ pc[p] = "done"
    /\ mode[p] /= "post"
    /\ Len(keywordLog[p]) = 2
    /\ keywordLog[p][1].fetchThrew
    /\ ~response[p].results[1].success
    /\ response[p].results[2].success
    /\ response[p].results[2].postsCount > 0

\* C8: the store holds at most one post per keyword and URL.
C8_UniquePerKeywordAndUrl ==
  \A a, b \in posts :
    (a.keyword_id = b.keyword_id /\ a.post_url = b.post_url) => a = b

\* two overlapping passes both found the URL missing; the second insert was
\* refused
C8_Witness ==
  \E p \in Procs : insertError[p] = "23505"

\* C9: a keyword whose reconcile met a failing storage operation is recorded
\* by the batch as failed, with an error message.
C9_StorageFailureRecorded ==
  \A p \in Procs :
    mode[p] /= "post" =>
      \A i \in 1..Len(results[p]) :
        keywordLog[p][i].storageFailed =>
          ~results[p][i].success /\ results[p][i].error /= ""

\* C10: no enrichment outcome aborts the reconcile: only the fetch throws,
\* and when the reconcile has returned every candidate has been processed and
\* each candidate whose enrichment was unavailable is stored with its rank and
\* has one more history record.
C10_EnrichmentFailureSwallowed ==
  \A p \in Procs :
    /\ pc[p] = "catch" => keywordLog[p][ki[p]].fetchThrew
    /\ (pc[p] = "saved" /\ redditPosts[p] /= <<>>) =>
         /\ Len(scrapeLog[p]) = Len(redditPosts[p])
         /\ \A i \in 1..Len(redditPosts[p]) :
              scrapeLog[p][i] = "unavailable" =>
                \E q \in NowRows(p) :
                  /\ q.post_url = redditPosts[p][i].post_url
                  /\ q.rank_position = redditPosts[p][i].rank_position
                  /\ RecordsNow(q.id) = RecordsBefore(p, q.id) + 1

\* the first candidate's enrichment was unavailable; both candidates are stored
C10_Witness ==
  \E p \in Procs :
    /\ pc[p] = "saved"
    /\ Len(redditPosts[p]) = 2
    /\ scrapeLog[p][1] = "unavailable"
    /\ Cardinality(NowRows(p)) = 2
    /\ \A q \in NowRows(p) : RecordsNow(q.id) >= 1

\* the stored row that p has just written for its candidate
WrittenRows(p) == {q \in posts : q.id = targetId[p]}

\* C11: when the enrichment provider answered 2xx with an empty result set,
\* the candidate's row is written as with no enrichment available: it carries
\* the payload and the enrichment timestamp it had before (none if the row
\* is new).
C11_EmptyResultSetIsNoEnrichment ==
  \A p \in Procs :
    (pc[p] = "history" /\ apifyData[p] = "[]") =>
      \A q \in WrittenRows(p) :
        /\ q.apify_scraped_data = existingPost[p].apify_scraped_data
        /\ q.apify_scraped_at = existingPost[p].apify_scraped_at

\* C12: an enrichment call that has not been followed by the delay is the
\* call the pass has just made, and the pass is at the delay; so no
\* enrichment call is issued, for this keyword or the next, before the delay
\* of the call before it has passed.
C12_DelayAfterEveryEnrichmentCall ==
  \A p \in Procs :
    /\ \A i \in 1..Len(keywordLog[p]) :
         keywordLog[p][i].undelayed => (i = ki[p] /\ pc[p] = "delay")
    /\ pc[p] = "scrape" => ~keywordLog[p][ki[p]].undelayed

\* the second candidate is about to be enriched after the first candidate's
\* call returned nothing
C12_Witness ==
  \E p \in Procs :
    /\ pc[p] = "scrape"
    /\ ci[p] = 2
    /\ scrapeLog[p] = <<"unavailable">>

\* C13: a 2xx answer with no task, or with a task whose status is not
\* success, makes the fetch throw and the keyword is not reconciled; a
\* successful task with no result, or with a result, does not throw, and with
\* no result the candidate list is empty.
C13_TaskEnvelopeChecked ==
  \A p \in Procs : \A i \in 1..Len(keywordLog[p]) :
    LET e == keywordLog[p][i]
    IN  /\ e.input \in {"no_task", "task_failed"} => (e.fetchThrew /\ ~e.reconciled)
        /\ e.input \in {"no_result", "result"} => ~e.fetchThrew
        /\ (e.input = "no_result" /\ i = ki[p] /\ pc[p] = "save") =>
             redditPosts[p] = <<>>
        /\ (e.fetchThrew /\ i = ki[p]) => pc[p] \in {"catch", "respond", "done"}

\* a batch whose first keyword's task failed and whose second keyword's task
\* succeeded with no result: the empty list is handed to the reconciler
C13_Witness ==
  \E p \in Procs :
    /\ Len(keywordLog[p]) = 2
    /\ keywordLog[p][1].input = "task_failed"
    /\ keywordLog[p][1].fetchThrew
    /\ keywordLog[p][2].input = "no_result"
    /\ pc[p] = "save"
    /\ redditPosts[p] = <<>>

\* the answers with which the fetch cannot deliver a candidate list
FailedInputs ==
  {"no_credentials", "transport_failure", "non_2xx", "no_task", "task_failed"}

\* C14: a keyword whose fetch failed is not reconciled in that pass: while
\* the pass is still at that keyword the store is as it was when the fetch
\* began, no enrichment call has been made, and the on-demand route answers
\* with the failure and no post list.
C14_FailedFetchLeavesKeywordAlone ==
  \A p \in Procs : \A i \in 1..Len(keywordLog[p]) :
    keywordLog[p][i].input \in FailedInputs =>
      /\ ~keywordLog[p][i].reconciled
      /\ i = ki[p] =>
           /\ pc[p] \in {"catch", "respond", "done"}
           /\ posts = pre[p].posts
           /\ history = pre[p].history
           /\ calls[p] = 0
           /\ scrapeLog[p] = <<>>
           /\ (mode[p] = "post" /\ pc[p] = "done") =>
                /\ response[p].status = 500
                /\ response[p].error /= ""
                /\ response[p].data = <<>>

\* the on-demand route has answered a failed fetch for a keyword that has
\* stored posts
C14_Witness ==
  \E p \in Procs :
    /\ pc[p] = "done"
    /\ mode[p] = "post"
    /\ Len(keywordLog[p]) = 1
    /\ keywordLog[p][1].input \in FailedInputs
    /\ response[p].status = 500
    /\ SelectByKeyword(posts, kws[p][1]) /= {}

\* a batch has answered with its result
BatchAnswered(p) == pc[p] = "done" /\ mode[p] /= "post" /\ response[p].status = 200

\* the counts and the entries of the result of a batch over at least one
\* keyword
AggregateOk(p) ==
  /\ response[p].checked = Len(kws[p])
  /\ response[p].successful /= NoCount
  /\ response[p].failed /= NoCount
  /\ response[p].checked = response[p].successful + response[p].failed
  /\ Len(response[p].results) = Len(kws[p])
  /\ response[p].successful =
       Cardinality({i \in 1..Len(response[p].results) : response[p].results[i].success})
  /\ \A i \in 1..Len(response[p].results) :
       LET e == response[p].results[i]
       IN  /\ e.keyword = kws[p][i]
           /\ e.success => (e.postsCount /= NoCount /\ e.error = "")
           /\ ~e.success => (e.postsCount = NoCount /\ e.error /= "")

\* C15, as stated: the result of every batch carries a total equal to the
\* number of tracked keywords and to succeeded + failed, and one entry per
\* keyword that is either a success with a post count or a failure with an
\* error message.
C15_BatchAggregate ==
  \A p \in Procs : BatchAnswered(p) => AggregateOk(p)

\* C15, amended: that holds of a batch over at least one tracked keyword; with
\* no tracked keyword the result carries the total 0 and neither a succeeded
\* count, nor a failed count, nor entries.
C15_BatchAggregate_Amended ==
  \A p \in Procs :
    BatchAnswered(p) =>
      IF kws[p] = <<>>
      THEN /\ response[p].checked = 0
           /\ response[p].successful = NoCount
           /\ response[p].failed = NoCount
           /\ response[p].results = <<>>
      ELSE AggregateOk(p)

\* a batch over two keywords has answered with one success and one failure
C15_Witness ==
  \E p \in Procs :
    /\ BatchAnswered(p)
    /\ response[p].checked = 2
    /\ response[p].successful = 1
    /\ response[p].failed = 1

\* C16: a batch request that carries a bearer token other than the
\* configured secret is answered 401 and neither lists, fetches nor
\* reconciles a keyword; any other batch request is not answered 401.
C16_BatchGatedBySecret ==
  \A p \in Procs :
    (pc[p] /= "idle" /\ mode[p] /= "post") =>
      IF auth[p].secret /= Null /\ auth[p].token /= auth[p].secret
      THEN /\ pc[p] = "done"
           /\ response[p].status = 401
           /\ kws[p] = <<>>
           /\ keywordLog[p] = <<>>
      ELSE response[p].status /= 401

\* C17: when an existing post has been updated, its enrichment payload and
\* timestamp are the fresh payload and the time of the pass if a payload was
\* obtained for it in this pass, and are what they were before otherwise
\* (enrichment skipped, or attempted and unavailable: no token, a failed
\* call, an empty result set).
C17_EnrichmentUntouchedWithoutPayload ==
  \A p \in Procs :
    (pc[p] = "history" /\ existingPost[p] /= NoPost) =>
      \A q \in WrittenRows(p) :
        IF apifyData[p] = "item"
        THEN /\ q.apify_scraped_data = "item"
             /\ q.apify_scraped_at = now[p]
        ELSE /\ q.apify_scraped_data = existingPost[p].apify_scraped_data
             /\ q.apify_scraped_at = existingPost[p].apify_scraped_at

C20_OneFetchPerKeyword ==
  \A p \in Procs :
    /\ Len(keywordLog[p]) <= ki[p]
    /\ \A i \in 1..Len(keywordLog[p]) :
         keywordLog[p][i].input = "no_credentials" =>
           /\ ~keywordLog[p][i].called
           /\ keywordLog[p][i].fetchThrew
           /\ ~keywordLog[p][i].reconciled
    /\ \A i \in 1..Len(keywordLog[p]) :
         keywordLog[p][i].input /= "no_credentials" => keywordLog[p][i].called

\* a batch found no credentials for its first keyword, went on, and asked the
\* provider for its second keyword, which failed as well
C20_Witness ==
  \E p \in Procs :
    /\ Len(keywordLog[p]) = 2
    /\ keywordLog[p][1].input = "no_credentials"
    /\ ~keywordLog[p][1].called
    /\ keywordLog[p][2].input = "transport_failure"
    /\ keywordLog[p][2].called
    /\ pc[p] = "done"
    /\ Len(response[p].results) = 2

\* where a pass stands while saveRankingsToDatabase runs for its keyword
Reconciling(p) ==
  pc[p] \in {"lookup", "scrape", "delay", "write", "history", "list", "delete",
             "deleteAll", "saved"}

\* the rows of the keywords other than k
RowsOfOthers(rows, k) == {r \in rows : r.keyword_id /= k}

\* C21: while a pass reconciles keyword K, the posts stored for every other
\* keyword and the history records of those posts are those stored when the
\* reconcile began: none is inserted, updated or deleted, even when another
\* keyword stores a post under the URL of one of K's candidates or of one of
\* K's removed posts.
C21_OtherKeywordsUntouched ==
  \A p \in Procs :
    Reconciling(p) =>
      /\ RowsOfOthers(posts, keyword(p)) = RowsOfOthers(pre[p].posts, keyword(p))
      /\ \A r \in RowsOfOthers(pre[p].posts, keyword(p)) :
           HistoryOf(history, r.id) = HistoryOf(pre[p].history, r.id)
      /\ \A i \in 1..Len(history) :
           (\A r \in NowRows(p) : r.id /= history[i].reddit_post_id) =>
             \E j \in 1..Len(pre[p].history) : pre[p].history[j] = history[i]

\* a reconcile of K has stored a candidate and removed a post, each under a
\* URL that another keyword stores as well
C21_Witness ==
  /\ pc[1] = "saved"
  /\ \E i \in 1..Len(redditPosts[1]) :
       /\ \E r \in NowRows(1) : r.post_url = redditPosts[1][i].post_url
       /\ \E o \in RowsOfOthers(posts, keyword(1)) :
            o.post_url = redditPosts[1][i].post_url
  /\ \E r \in PreRows(1) :
       /\ \A n \in posts : n.id /= r.id
       /\ \E o \in RowsOfOthers(posts, keyword(1)) : o.post_url = r.post_url

\* the ids of the stored posts
Ids(rows) == {r.id : r \in rows}

\* C22: a history record is never changed once appended and leaves the store
\* only when its parent post is deleted: each step keeps, in order and
\* unchanged, the records whose parent is still stored, and adds records
\* only after them; and a step of a pass that deletes posts deletes none
\* for which that pass has appended a record.
C22_HistoryAppendOnly ==
  [][/\ Len(history') >= Len(CascadeHistory(history, Ids(posts) \ Ids(posts')))
     /\ SubSeq(history', 1, Len(CascadeHistory(history, Ids(posts) \ Ids(posts'))))
          = CascadeHistory(history, Ids(posts) \ Ids(posts'))
     /\ \A p \in Procs :
          (pc[p] \in {"delete", "deleteAll"} /\ pc'[p] = "saved") =>
            \A id \in Ids(posts) \ Ids(posts') :
              HistoryOf(history, id) = HistoryOf(pre[p].history, id)]_vars

\* a reconcile has appended a second record for a post whose rank changed,
\* the first record standing as it was, and has deleted another post
C22_Witness ==
  /\ pc[1] = "saved"
  /\ \E r \in NowRows(1) :
       /\ RecordsNow(r.id) = 2
       /\ HistoryOf(history, r.id)[1] = HistoryOf(pre[1].history, r.id)[1]
       /\ HistoryOf(history, r.id)[1].rank_position /= r.rank_position
       /\ HistoryOf(history, r.id)[2].rank_position = r.rank_position
  /\ \E r \in PreRows(1) : r.id \notin Ids(posts)

\* the batch of p has the synchronisations left that its keywords take
BatchWithinBound(p) ==
  /\ pc[p] = "keywords"
  /\ syncs + Len(TrackedKeywords) - 1 <= MaxSyncs

\* the batch of p has answered, having attempted each listed keyword once and
\* in listing order
BatchFinished(p) ==
  /\ pc[p] = "done"
  /\ \/ response[p].error = "keywordsError"
     \/ /\ response[p].status = 200
        /\ response[p].checked = Len(kws[p])
        /\ Len(keywordLog[p]) = Len(kws[p])
        /\ Len(response[p].results) = Len(kws[p])
        /\ \A i \in 1..Len(kws[p]) : response[p].results[i].keyword = kws[p][i]

\* C23: every awaited call returning, a batch that has begun eventually
\* answers with its aggregate, having attempted each tracked keyword exactly
\* once, in listing order.
C23_BatchTerminates == BatchWithinBound(1) ~> BatchFinished(1)

\* a batch over both keywords has answered, one of its fetches having thrown
\* and one of its storage operations having failed
C23_Witness ==
  /\ pc[1] = "done"
  /\ mode[1] /= "post"
  /\ response[1].checked = Len(TrackedKeywords)
  /\ \E i \in 1..Len(keywordLog[1]) : keywordLog[1][i].fetchThrew
  /\ \E i \in 1..Len(keywordLog[1]) : keywordLog[1][i].storageFailed

\* C24: in every reachable state, also of two passes whose steps interleave,
\* every history record references a stored post: there is no orphan.
C24_NoOrphanHistory ==
  \A i \in 1..Len(history) : history[i].reddit_post_id \in Ids(posts)

\* the lookup of pass 1 has found its candidate's row, pass 2 has then
\* deleted that row, and the history insert of pass 1 has come after
C24_Witness ==
  /\ pc[1] \in {"lookup", "list"}
  /\ pc[2] = "saved"
  /\ existingPost[1] /= NoPost
  /\ targetId[1] = existingPost[1].id
  /\ targetId[1] \notin Ids(posts)
  /\ targetId[1] \in Ids(pre[2].posts)
  /\ faulted[1]

\* the most recent history record of the post id
LatestRecord(id) == HistoryOf(history, id)[Len(HistoryOf(history, id))]

\* C25: whenever no pass is in progress, every stored post has at least one
\* history record, and its rank and last-checked time are those of its most
\* recent record; storage writes may have failed in the passes before.
C25_PostMatchesLatestRecord ==
  (\A p \in Procs : pc[p] = "idle") =>
    \A r \in posts :
      /\ RecordsNow(r.id) >= 1
      /\ LatestRecord(r.id).rank_position = r.rank_position
      /\ LatestRecord(r.id).checked_at = r.last_checked_at

\* the reconcile of the keyword of p has returned and p has not gone on
Reconciled(p) ==
  \/ pc[p] = "saved"
  \/ /\ mode[p] = "post"
     /\ pc[p] \in {"refetch", "done"}
     /\ Len(keywordLog[p]) = 1
     /\ keywordLog[p][1].reconciled

CandidateUrls(p) == {redditPosts[p][i].post_url : i \in 1..Len(redditPosts[p])}

StoredUrls(k) == {r.post_url : r \in SelectByKeyword(posts, k)}

\* C26: once two passes for the same keyword have both finished their
\* reconcile, the URLs stored for the keyword are the candidate URLs of one
\* of the two passes.  (Stated for non-empty candidate lists, so that the
\* early return on an empty list plays no part.)
C26_OverlapSerialisable ==
  (/\ Reconciled(1) /\ Reconciled(2)
   /\ keyword(1) = keyword(2)
   /\ redditPosts[1] /= <<>> /\ redditPosts[2] /= <<>>) =>
    \/ StoredUrls(keyword(1)) = CandidateUrls(1)
    \/ StoredUrls(keyword(1)) = CandidateUrls(2)

\* the payload that the enrichment of candidate i of p returned, as logged
EnrichmentOf(p, i) == IF scrapeLog[p][i] = "payload" THEN "item" ELSE Null

\* the row that a reconcile leaves for candidate i of p, given the store it
\* began on, its clock and the enrichment's answer; id 0 stands for a
\* generated id
ExpectedRow(p, i) ==
  LET c == redditPosts[p][i]
      old == SelectPost(pre[p].posts, keyword(p), c.post_url)
  IN  IF old = {}
      THEN insertData(0, keyword(p), c, now[p], EnrichmentOf(p, i))
      ELSE updateData(CHOOSE e \in old : TRUE, c, now[p], EnrichmentOf(p, i))

SameRow(r, e) == IF e.id = 0 THEN [r EXCEPT !.id = 0] = e ELSE r = e

\* what a reconcile leaves is a function of the store it began on, the
\* candidate list, the enrichment's answers and the clock: a row per
\* candidate with one more history record, and no other row of the keyword
OutcomeDetermined(p) ==
  /\ \A i \in 1..Len(redditPosts[p]) :
       \E r \in NowRows(p) :
         /\ SameRow(r, ExpectedRow(p, i))
         /\ RecordsNow(r.id) = RecordsBefore(p, r.id) + 1
         /\ LatestRecord(r.id) = historyRow(r.id, redditPosts[p][i], now[p])
  /\ \A r \in NowRows(p) : HasCandidate(p, r.post_url)
  /\ Len(history) =
       Len(CascadeHistory(pre[p].history, Ids(pre[p].posts) \ Ids(posts)))
         + Len(redditPosts[p])

\* C27: the reconciler of lib/rankings.ts and the edge function's copy are
\* equivalent: whichever of them a pass runs, the posts and history records
\* it leaves are those determined by the store it began on, its candidate
\* list, the enrichment's answers and the clock, for every candidate list,
\* the empty one included.
C27_ReconcilersEquivalent ==
  \A p \in Procs : pc[p] = "saved" => OutcomeDetermined(p)

\* the same, for the candidate lists that are not empty
ReconcilersAgreeOnPosts ==
  \A p \in Procs :
    (pc[p] = "saved" /\ redditPosts[p] /= <<>>) => OutcomeDetermined(p)

\* C28: a post that stays stored from one state to the next keeps its
\* identifier and its first-seen time, its last-checked time does not
\* decrease, and first-seen <= last-checked holds of every stored post.
C28_IdentityAndTimesKept ==
  [][/\ \A r \in posts : r.first_seen_at <= r.last_checked_at
     /\ \A r \in posts' : r.first_seen_at <= r.last_checked_at
     /\ \A r \in posts : \A s \in posts' :
          (r.keyword_id = s.keyword_id /\ r.post_url = s.post_url) =>
            /\ s.id = r.id
            /\ s.first_seen_at = r.first_seen_at
            /\ s.last_checked_at >= r.last_checked_at]_vars

\* a post first seen at hour 0 has been found again by two later syncs
C28_Witness ==
  \E r \in posts :
    /\ r.first_seen_at = 0
    /\ r.last_checked_at > 1
    /\ RecordsNow(r.id) = 3

\* candidate i of p is a post that the initial batch stored for the keyword
\* and that an earlier sync has dropped since
Reappears(p, i) ==
  /\ SelectPost(SeedPosts, keyword(p), redditPosts[p][i].post_url) /= {}
  /\ SelectPost(pre[p].posts, keyword(p), redditPosts[p][i].post_url) = {}

HasPayload(r) == r.apify_scraped_data \notin {Null, "[]"}

HasEnrichmentTime(r) == r.apify_scraped_at /= NoTime

\* C30: a stored post has an enrichment timestamp if and only if it has an
\* enrichment payload, before and after every step, and a post that holds a
\* payload and stays stored holds one after the step as well.
C30_TimestampIffPayload ==
  [][/\ \A r \in posts : HasEnrichmentTime(r) <=> HasPayload(r)
     /\ \A r \in posts' : HasEnrichmentTime(r) <=> HasPayload(r)
     /\ \A r \in posts : \A s \in posts' :
          (s.id = r.id /\ HasPayload(r)) => HasPayload(s)]_vars

\* the two enrichment columns are null together or set together, and a
\* column that is set is not set back to null
EnrichmentColumnsPaired ==
  [][/\ \A r \in posts' : (r.apify_scraped_at = NoTime) <=> (r.apify_scraped_data = Null)
     /\ \A r \in posts : \A s \in posts' :
          (s.id = r.id /\ r.apify_scraped_data /= Null) => s.apify_scraped_data /= Null]_vars

=============================================================================
